---- MODULE Spec2Model ----
(***************************************************************************)
(* Model of timesheet.py: the worklog allocator (build_day_payloads), the  *)
(* day usage calculator (calculate_logged_seconds_for_day) and the run     *)
(* orchestrator (main), with the issue tracker as the environment.         *)
(*                                                                         *)
(* Time is counted in seconds.  A date is a day number (day 0 is a Monday) *)
(* and a datetime in the fixed UTC+3 zone is the number of seconds since   *)
(* 00:00 (UTC+3) of day 0.                                                 *)
(***************************************************************************)
EXTENDS Integers, Sequences, FiniteSets, TLC

VARIABLES
    entry,              \* which function the run enters: "main", "build_day_payloads", "calculate_logged_seconds_for_day"
    pc,                 \* position in the code
    token,              \* args.token
    dry_run,            \* args.dry_run
    use_defaults,       \* main: use_defaults
    weighted_issues,    \* main: weighted_issues (sequence of Issue)
    start_date,         \* main: start_date
    end_date,           \* main: end_date
    daily_hours,        \* main: daily_hours
    max_task_hours,     \* main / build_day_payloads: max_task_hours
    confirmed,          \* main: ask_confirmation() returned True
    days,               \* main: days
    dayIdx,             \* main: index of the day the for loop is at
    day,                \* the day handed to the function being run
    logged_seconds,     \* main: logged_seconds / result of the calculator
    budget,             \* build_day_payloads: remaining_seconds as passed in
    remaining_seconds,  \* build_day_payloads: remaining_seconds (running)
    current_dt,         \* build_day_payloads: current_dt
    payloads,           \* build_day_payloads / main: payloads
    entryIdx,           \* main: index of the payload the inner for loop is at
    created,            \* main: created
    skipped_days,       \* main: skipped_days
    errors,             \* main: errors
    exit_code,          \* process exit status (-1 while running)
    tracker,            \* the tracker's worklogs
    posts,              \* number of POST .../worklog requests issued
    generated,          \* number of payloads handed to the submission loop
    attempts,           \* number of payloads the submission loop has handled
    faults,             \* number of tracker requests that failed so far
    failed_keys         \* calculator: issues whose worklog fetch failed

vars == <<entry, pc, token, dry_run, use_defaults, weighted_issues, start_date,
          end_date, daily_hours, max_task_hours, confirmed, days, dayIdx, day,
          logged_seconds, budget, remaining_seconds, current_dt, payloads,
          entryIdx, created, skipped_days, errors, exit_code, tracker, posts,
          generated, attempts, faults, failed_keys>>

(***************************************************************************)
(* Bounds of the model.                                                    *)
(***************************************************************************)
MaxSpan == 2            \* the dates offered to the prompts: Thursday .. Thursday + MaxSpan
MaxDailyHours == 2      \* answers to "Hours to fill per day": 1..MaxDailyHours (and LongDayHours)
MaxTaskHours == 3       \* answers to "Maximum hours per entry": 1..MaxTaskHours
LongDayHours == 15      \* one large answer to "Hours to fill per day"
MaxAllocHours == 5      \* build_day_payloads alone: budgets up to MaxAllocHours hours (+ a fraction)
MaxWorklogs == 2        \* calculator alone: worklogs in the tracker
MaxMainWorklogs == 1    \* main: worklogs in the tracker before the run
MaxFaults == 1          \* failing tracker requests per run

(***************************************************************************)
(* Program constants.                                                      *)
(***************************************************************************)
hour_seconds == 3600
DaySeconds == 24 * hour_seconds
StartHour == 10
TzOffsetHours == 3
DEFAULT_HOURS == 4
DEFAULT_MAX_DURATION == 2
MinWeight == 1
MaxWeight == 5

Me == "currentUser"
Other == "otherUser"
Unset == 0 - 1

Min(a, b) == IF a <= b THEN a ELSE b

(***************************************************************************)
(* datetime.strftime("%Y-%m-%dT%H:%M:%S.000%z") and its parse.  A started   *)
(* value is [fmt, date, hh, mm, ss, off]; fmt is "ok", "absent" (no value) *)
(* or "bad" (a value the format does not match).                           *)
(***************************************************************************)
Strftime(dt) ==
    [fmt  |-> "ok",
     date |-> dt \div DaySeconds,
     hh   |-> (dt % DaySeconds) \div hour_seconds,
     mm   |-> (dt % hour_seconds) \div 60,
     ss   |-> dt % 60,
     off  |-> TzOffsetHours * hour_seconds]

\* parse_started_datetime(started).date(): the date in the entry's own offset;
\* Unset stands for the ValueError of a malformed value
StartedDate(started) ==
    IF started.fmt = "bad" THEN Unset ELSE started.date

StartedSeconds(started) ==
    started.date * DaySeconds + started.hh * hour_seconds + started.mm * 60 + started.ss

\* datetime.combine(day, time(10, 0, 0)).replace(tzinfo=UTC+3)
DayStartDt(d) == d * DaySeconds + StartHour * hour_seconds

RECURSIVE SumDur(_)
SumDur(ps) ==
    IF ps = <<>> THEN 0 ELSE ps[1].timeSpentSeconds + SumDur(Tail(ps))

(***************************************************************************)
(* build_day_payloads                                                      *)
(***************************************************************************)
\* variant of LoopCond: > in place of >=
LoopCond_strict(rem) == rem > hour_seconds

\* while remaining_seconds >= hour_seconds
LoopCond(rem) == rem >= hour_seconds

\* variant of MaxHours: the per-entry maximum is not applied
MaxHours_nocap(max_task, rem) == rem \div hour_seconds

\* max_hours = min(max_chunk_seconds, remaining_seconds) // hour_seconds
MaxHours(max_task, rem) == Min(max_task * hour_seconds, rem) \div hour_seconds

\* variant of NextRemaining: half the chunk is subtracted
NextRemaining_half(rem, chunk_seconds) == rem - chunk_seconds \div 2

\* remaining_seconds -= chunk_seconds
NextRemaining(rem, chunk_seconds) == rem - chunk_seconds

\* variant of NextDt: the clock advances one hour whatever the chunk
NextDt_hour(dt, chunk_seconds) == dt + hour_seconds

\* current_dt += timedelta(seconds=chunk_seconds)
NextDt(dt, chunk_seconds) == dt + chunk_seconds

\* random.choices(issue_keys, weights=issue_weights, k=1)[0]: any issue of positive weight
Choices(issues) == {issues[i].key : i \in {j \in 1..Len(issues) : issues[j].weight > 0}}


(***************************************************************************)
(* The tracker.  A worklog is [key, author, started, timeSpentSeconds];    *)
(* started is a formatted timestamp, absent or malformed.                  *)
(***************************************************************************)
IssueOrder == <<"A", "B">>

Worklog(k, a, st, secs) ==
    [key |-> k, author |-> a, started |-> st, timeSpentSeconds |-> secs]

\* the dates the prompts are answered with; day 3 is a Thursday
Dates == 3 .. (3 + MaxSpan)

Thursday == CHOOSE d \in Dates : \A e \in Dates : d <= e

NoStarted(f) == [fmt |-> f, date |-> Unset, hh |-> 0, mm |-> 0, ss |-> 0, off |-> 0]

WorklogPool ==
    { Worklog("A", Me,    Strftime(DayStartDt(Thursday)), hour_seconds),
      Worklog("A", Other, Strftime(DayStartDt(Thursday)), 2 * hour_seconds),
      Worklog("B", Me,    Strftime(DayStartDt(Thursday) + hour_seconds), hour_seconds \div 2),
      Worklog("B", Me,    Strftime(DayStartDt(Thursday + 1)), 2 * hour_seconds),
      Worklog("A", Me,    NoStarted("absent"), hour_seconds),
      Worklog("B", Me,    NoStarted("bad"), hour_seconds),
      Worklog("A", Me,    Strftime(DayStartDt(Thursday + 1)), 0) }

Trackers(n) == {t \in SUBSET WorklogPool : Cardinality(t) <= n}

\* a worklog whose start can be read and falls on day d
StartsOn(w, d) ==
    /\ w.started.fmt # "absent"
    /\ StartedDate(w.started) = d

\* jql: worklogAuthor=currentUser() AND worklogDate="<day>"
TouchedKeys(tr, d) == {w.key : w \in {x \in tr : x.author = Me /\ StartsOn(x, d)}}

\* fetch_day_issue_keys: the keys of the search result, in the tracker's order;
\* twice marks a result that lists an issue on two pages
fetch_day_issue_keys(tr, d, twice) ==
    LET ks == SelectSeq(IssueOrder, LAMBDA k : k \in TouchedKeys(tr, d))
    IN  IF twice THEN ks \o ks ELSE ks

\* fetch_issue_worklogs: GET /issue/<key>/worklog lists every worklog of the issue
fetch_issue_worklogs(tr, k) == {w \in tr : w.key = k}

RECURSIVE SumSeconds(_)
SumSeconds(ws) ==
    IF ws = {} THEN 0
    ELSE LET w == CHOOSE x \in ws : TRUE
         IN  w.timeSpentSeconds + SumSeconds(ws \ {w})

\* the inner loop of calculate_logged_seconds_for_day over one issue's worklogs
DaySecondsOf(ws, d) ==
    SumSeconds({w \in ws : /\ w.started.fmt # "absent"
                           /\ w.timeSpentSeconds > 0
                           /\ StartedDate(w.started) # Unset
                           /\ StartedDate(w.started) = d})

\* the loop of calculate_logged_seconds_for_day over keys; failing are the
\* issues whose worklog fetch raises RuntimeError
RECURSIVE SumKeys(_, _, _, _, _)
SumKeys(tr, d, keys, seen, failing) ==
    IF keys = <<>> THEN 0
    ELSE LET k == Head(keys)
         IN  IF k \in seen THEN SumKeys(tr, d, Tail(keys), seen, failing)
             ELSE (IF k \in failing THEN 0
                   ELSE DaySecondsOf(fetch_issue_worklogs(tr, k), d))
                  + SumKeys(tr, d, Tail(keys), seen \cup {k}, failing)

\* the outcomes of one request_json call sequence: a value, a RuntimeError
\* (HTTPError, URLError, JSONDecodeError) or an exception no except clause of
\* request_json names (RemoteDisconnected, TimeoutError, UnicodeDecodeError)
Kinds == {"value", "RuntimeError", "uncaught"}

\* calculate_logged_seconds_for_day: every outcome the tracker's responses allow,
\* with at most n failing requests
calculate_logged_seconds_for_day(tr, d, n) ==
    LET touched == TouchedKeys(tr, d)
    IN  { [kind |-> "value", value |-> SumKeys(tr, d, fetch_day_issue_keys(tr, d, tw), {}, f),
           failed |-> f] :
            tw \in BOOLEAN, f \in {x \in SUBSET touched : Cardinality(x) <= n} }
        \cup (IF n > 0
              THEN { [kind |-> "RuntimeError", value |-> Unset, failed |-> {}],
                     [kind |-> "uncaught", value |-> Unset, failed |-> {}] }
              ELSE {})

\* working_days(start_date, end_date): the Mon-Fri dates of the range, ascending
RECURSIVE working_days(_, _)
working_days(s, e) ==
    IF s > e THEN <<>>
    ELSE (IF s % 7 < 5 THEN <<s>> ELSE <<>>) \o working_days(s + 1, e)


(***************************************************************************)
(* Inputs.                                                                 *)
(***************************************************************************)
Issue(k, w) == [key |-> k, weight |-> w]

\* the keys of the items fetch_open_issues can return ("" is an item without a
\* key): nothing, only an item without a key, one issue, one issue after an
\* item without a key
RawIssueLists == { <<>>, <<"">>, <<"A">>, <<"", "A">> }

\* the answers ask_weight accepts are "1".."5"; the model answers with the two ends
WeightAnswers == {MinWeight, MaxWeight}

\* the answers given to the two ask_int prompts; the long day is answered only
\* in a run with one issue
WorkloadAnswers(issues) ==
    ((1..MaxDailyHours) \X (1..MaxTaskHours))
        \cup (IF Len(issues) = 1 THEN {<<LongDayHours, 1>>} ELSE {})

\* the budgets build_day_payloads is run with on its own
AllocBudgets ==
    { h * hour_seconds + f : h \in 0..MaxAllocHours, f \in {0, 1, hour_seconds - 1} }
        \cup { 0 - hour_seconds }

AllocIssues == { <<Issue("A", MinWeight)>>, <<Issue("A", MaxWeight), Issue("B", MinWeight)>> }

Running == Unset

\* the variables of main before main has set them
Idle ==
    /\ use_defaults = FALSE
    /\ start_date = Unset /\ end_date = Unset /\ daily_hours = Unset
    /\ confirmed = FALSE /\ days = <<>> /\ dayIdx = 0
    /\ logged_seconds = Unset /\ entryIdx = 0
    /\ created = 0 /\ skipped_days = 0 /\ errors = 0
    /\ exit_code = Running /\ posts = 0 /\ generated = 0 /\ attempts = 0
    /\ faults = 0 /\ failed_keys = {}

\* python timesheet.py [--dry-run] [--token T]
MainInit ==
    /\ entry = "main" /\ pc = "start"
    /\ token \in {"", "tok"}
    /\ dry_run \in BOOLEAN
    /\ tracker \in Trackers(MaxMainWorklogs)
    /\ weighted_issues = <<>> /\ max_task_hours = Unset /\ day = Unset
    /\ budget = Unset /\ remaining_seconds = Unset /\ current_dt = Unset
    /\ payloads = <<>>
    /\ Idle

\* build_day_payloads(day, issues, remaining_seconds, max_task_hours), at the loop head
AllocInit ==
    /\ entry = "build_day_payloads" /\ pc = "alloc"
    /\ day \in Dates
    /\ weighted_issues \in AllocIssues
    /\ budget \in AllocBudgets
    /\ max_task_hours \in 1..MaxTaskHours
    /\ remaining_seconds = budget
    /\ current_dt = DayStartDt(day)
    /\ payloads = <<>>
    /\ tracker = {}
    /\ token = "" /\ dry_run = FALSE
    /\ Idle

\* calculate_logged_seconds_for_day(headers, base_url, day)
CalcInit ==
    /\ entry = "calculate_logged_seconds_for_day" /\ pc = "calc"
    /\ day \in Dates
    /\ tracker \in Trackers(MaxWorklogs)
    /\ weighted_issues = <<>> /\ max_task_hours = Unset
    /\ budget = Unset /\ remaining_seconds = Unset /\ current_dt = Unset
    /\ payloads = <<>>
    /\ token = "" /\ dry_run = FALSE
    /\ Idle

Init == MainInit \/ AllocInit \/ CalcInit

(***************************************************************************)
(* main: setup                                                             *)
(***************************************************************************)
setupVars == <<use_defaults, weighted_issues, start_date, end_date, daily_hours,
               max_task_hours, confirmed, days, dayIdx>>
allocVars == <<budget, remaining_seconds, current_dt, payloads>>
countVars == <<created, skipped_days, errors>>
ghostVars == <<posts, generated, attempts, faults, failed_keys>>

\* return <code> from main / an exception leaving main
Return(how, code) ==
    /\ pc' = how
    /\ exit_code' = code

\* headers = make_headers(args.token)
MakeHeaders ==
    /\ entry = "main" /\ pc = "start"
    /\ IF token = ""
       THEN Return("aborted", 1)
       ELSE pc' = "ask_defaults" /\ UNCHANGED exit_code
    /\ UNCHANGED <<entry, token, dry_run, setupVars, day, logged_seconds, allocVars,
                   entryIdx, countVars, tracker, ghostVars>>

\* use_defaults = ask_use_defaults()
AskUseDefaults ==
    /\ pc = "ask_defaults"
    /\ \E answer \in BOOLEAN : use_defaults' = answer
    /\ pc' = "fetch"
    /\ UNCHANGED <<entry, token, dry_run, weighted_issues, start_date, end_date,
                   daily_hours, max_task_hours, confirmed, days, dayIdx, day,
                   logged_seconds, allocVars, entryIdx, countVars, exit_code,
                   tracker, ghostVars>>

\* Step 1/5: fetch_open_issues, issue_rows
FetchOpenIssues ==
    /\ pc = "fetch"
    /\ \E kind \in Kinds :
         \/ /\ kind = "RuntimeError"
            /\ Return("aborted", 1)
            /\ UNCHANGED weighted_issues
         \/ /\ kind = "uncaught"
            /\ Return("crashed", 1)
            /\ UNCHANGED weighted_issues
         \/ /\ kind = "value"
            /\ \E raw_issues \in RawIssueLists :
                 LET issue_rows == SelectSeq(raw_issues, LAMBDA k : k # "")
                 IN  IF raw_issues = <<>> \/ issue_rows = <<>>
                     THEN Return("aborted", 1) /\ UNCHANGED weighted_issues
                     ELSE /\ pc' = "weights"
                          /\ weighted_issues' = [i \in 1..Len(issue_rows) |->
                                                    Issue(issue_rows[i], Unset)]
                          /\ UNCHANGED exit_code
    /\ UNCHANGED <<entry, token, dry_run, use_defaults, start_date, end_date,
                   daily_hours, max_task_hours, confirmed, days, dayIdx, day,
                   logged_seconds, allocVars, entryIdx, countVars, tracker, ghostVars>>

\* weight = ask_weight(key, summary) for every row
AskWeights ==
    /\ pc = "weights"
    /\ \E ws \in [1..Len(weighted_issues) -> WeightAnswers] :
         weighted_issues' = [i \in 1..Len(weighted_issues) |->
                                Issue(weighted_issues[i].key, ws[i])]
    /\ pc' = "dates"
    /\ UNCHANGED <<entry, token, dry_run, use_defaults, start_date, end_date,
                   daily_hours, max_task_hours, confirmed, days, dayIdx, day,
                   logged_seconds, allocVars, entryIdx, countVars, exit_code,
                   tracker, ghostVars>>

\* Step 2/5: start_date, end_date
AskDates ==
    /\ pc = "dates"
    /\ \E s \in Dates, e \in Dates :
         /\ start_date' = s
         /\ end_date' = e
         /\ IF s > e
            THEN Return("aborted", 1)
            ELSE pc' = "workload" /\ UNCHANGED exit_code
    /\ UNCHANGED <<entry, token, dry_run, use_defaults, weighted_issues,
                   daily_hours, max_task_hours, confirmed, days, dayIdx, day,
                   logged_seconds, allocVars, entryIdx, countVars, tracker, ghostVars>>

\* if max_task_hours > daily_hours: return 1
WorkloadOk(daily, max_task) == max_task <= daily

\* Step 3/5: daily_hours, max_task_hours
AskWorkload ==
    /\ pc = "workload"
    /\ \E a \in IF use_defaults
                THEN {<<DEFAULT_HOURS, DEFAULT_MAX_DURATION>>}
                ELSE WorkloadAnswers(weighted_issues) :
         /\ daily_hours' = a[1]
         /\ max_task_hours' = a[2]
         /\ IF WorkloadOk(a[1], a[2])
            THEN pc' = "confirm" /\ UNCHANGED exit_code
            ELSE Return("aborted", 1)
    /\ UNCHANGED <<entry, token, dry_run, use_defaults, weighted_issues, start_date,
                   end_date, confirmed, days, dayIdx, day, logged_seconds, allocVars,
                   entryIdx, countVars, tracker, ghostVars>>

\* ask_confirmation(): answer in {"y", "yes"}
Confirmed(answer) == answer \in {"y", "yes"}

\* Step 4/5: confirmation, days = working_days(start_date, end_date)
Confirm ==
    /\ pc = "confirm"
    /\ \E answer \in {"y", "yes", "n", "no"} :
         IF Confirmed(answer)
         THEN /\ confirmed' = TRUE
              /\ days' = working_days(start_date, end_date)
              /\ IF days' = <<>>
                 THEN Return("cancelled", 0) /\ UNCHANGED dayIdx
                 ELSE pc' = "day" /\ dayIdx' = 1 /\ UNCHANGED exit_code
         ELSE /\ Return("cancelled", 0)
              /\ UNCHANGED <<confirmed, days, dayIdx>>
    /\ UNCHANGED <<entry, token, dry_run, use_defaults, weighted_issues, start_date,
                   end_date, daily_hours, max_task_hours, day, logged_seconds,
                   allocVars, entryIdx, countVars, tracker, ghostVars>>


(***************************************************************************)
(* main: the fill loop                                                     *)
(***************************************************************************)
\* the for loop over days moves on: the next day, or the report after the last
NextDay ==
    IF dayIdx < Len(days)
    THEN pc' = "day" /\ dayIdx' = dayIdx + 1
    ELSE pc' = "report" /\ UNCHANGED dayIdx

\* variant of Remaining: the logged seconds are added
Remaining_sum(target_seconds, logged) == target_seconds + logged

\* remaining_seconds = target_seconds - logged_seconds
Remaining(target_seconds, logged) == target_seconds - logged

\* variant of SkipDay: <= in place of <
SkipDay_upto(remaining) == remaining <= hour_seconds

\* if remaining_seconds < 3600: skip the day
SkipDay(remaining) == remaining < hour_seconds

\* one iteration of "for day in days" up to the call of build_day_payloads
DayStart ==
    /\ pc = "day"
    /\ day' = days[dayIdx]
    /\ \E o \in calculate_logged_seconds_for_day(tracker, days[dayIdx], MaxFaults - faults) :
         /\ failed_keys' = o.failed
         /\ faults' = faults + Cardinality(o.failed) + (IF o.kind = "value" THEN 0 ELSE 1)
         /\ \/ /\ o.kind = "RuntimeError"
               /\ errors' = errors + 1
               /\ NextDay
               /\ UNCHANGED <<logged_seconds, allocVars, skipped_days, exit_code>>
            \/ /\ o.kind = "uncaught"
               /\ Return("crashed", 1)
               /\ UNCHANGED <<logged_seconds, allocVars, skipped_days, errors, dayIdx>>
            \/ /\ o.kind = "value"
               /\ logged_seconds' = o.value
               /\ LET remaining == Remaining(daily_hours * hour_seconds, o.value)
                  IN  IF SkipDay(remaining)
                      THEN /\ skipped_days' = skipped_days + 1
                           /\ NextDay
                           /\ UNCHANGED <<allocVars, errors, exit_code>>
                      ELSE /\ pc' = "alloc"
                           /\ budget' = remaining
                           /\ remaining_seconds' = remaining
                           /\ current_dt' = DayStartDt(days[dayIdx])
                           /\ payloads' = <<>>
                           /\ UNCHANGED <<skipped_days, errors, exit_code, dayIdx>>
    /\ UNCHANGED <<entry, token, dry_run, use_defaults, weighted_issues, start_date,
                   end_date, daily_hours, max_task_hours, confirmed, days, entryIdx,
                   created, tracker, posts, generated, attempts>>

\* one iteration of the while loop of build_day_payloads
AllocStep ==
    /\ pc = "alloc"
    /\ LoopCond(remaining_seconds)
    /\ \E chunk_hours \in 1..MaxHours(max_task_hours, remaining_seconds),
          issue_key \in Choices(weighted_issues) :
         LET chunk_seconds == chunk_hours * hour_seconds
         IN  /\ payloads' = Append(payloads,
                                   [issue_key |-> issue_key,
                                    started |-> Strftime(current_dt),
                                    timeSpentSeconds |-> chunk_seconds])
             /\ current_dt' = NextDt(current_dt, chunk_seconds)
             /\ remaining_seconds' = NextRemaining(remaining_seconds, chunk_seconds)
    /\ UNCHANGED <<entry, pc, token, dry_run, setupVars, day, logged_seconds, budget,
                   entryIdx, countVars, exit_code, tracker, ghostVars>>

\* build_day_payloads run on its own: return payloads
AllocReturn ==
    /\ entry = "build_day_payloads"
    /\ pc = "alloc"
    /\ ~LoopCond(remaining_seconds)
    /\ pc' = "returned"
    /\ UNCHANGED <<entry, token, dry_run, setupVars, day, logged_seconds, allocVars,
                   entryIdx, countVars, exit_code, tracker, ghostVars>>

\* main: build_day_payloads returns; "nothing to add" or on to the submissions
DayPayloads ==
    /\ entry = "main"
    /\ pc = "alloc"
    /\ ~LoopCond(remaining_seconds)
    /\ IF payloads = <<>>
       THEN /\ skipped_days' = skipped_days + 1
            /\ NextDay
            /\ UNCHANGED <<entryIdx, generated>>
       ELSE /\ pc' = "submit"
            /\ entryIdx' = 1
            /\ generated' = generated + Len(payloads)
            /\ UNCHANGED <<skipped_days, dayIdx>>
    /\ UNCHANGED <<entry, token, dry_run, use_defaults, weighted_issues, start_date,
                   end_date, daily_hours, max_task_hours, confirmed, days, day,
                   logged_seconds, allocVars, created, errors, exit_code, tracker,
                   posts, attempts, faults, failed_keys>>

\* the for loop over payloads moves on
NextEntry ==
    IF entryIdx < Len(payloads)
    THEN entryIdx' = entryIdx + 1 /\ UNCHANGED <<pc, dayIdx>>
    ELSE NextDay /\ UNCHANGED entryIdx

\* variant of DryRun: the flag is ignored
DryRun_off(flag) == FALSE

\* if args.dry_run
DryRun(flag) == flag

\* one iteration of "for issue_key, payload in payloads"
SubmitEntry ==
    /\ pc = "submit"
    /\ attempts' = attempts + 1
    /\ LET p == payloads[entryIdx]
       IN  IF DryRun(dry_run)
           THEN /\ created' = created + 1
                /\ NextEntry
                /\ UNCHANGED <<errors, exit_code, tracker, posts, faults>>
           ELSE /\ posts' = posts + 1
                /\ \E kind \in IF faults < MaxFaults THEN Kinds ELSE {"value"} :
                     \/ /\ kind = "value"
                        /\ tracker' = tracker \cup
                              {Worklog(p.issue_key, Me, p.started, p.timeSpentSeconds)}
                        /\ created' = created + 1
                        /\ NextEntry
                        /\ UNCHANGED <<errors, exit_code, faults>>
                     \/ /\ kind = "RuntimeError"
                        /\ errors' = errors + 1
                        /\ faults' = faults + 1
                        /\ NextEntry
                        /\ UNCHANGED <<created, exit_code, tracker>>
                     \/ /\ kind = "uncaught"
                        /\ faults' = faults + 1
                        /\ Return("crashed", 1)
                        /\ UNCHANGED <<created, errors, tracker, entryIdx, dayIdx>>
    /\ UNCHANGED <<entry, token, dry_run, use_defaults, weighted_issues, start_date,
                   end_date, daily_hours, max_task_hours, confirmed, days, day,
                   logged_seconds, allocVars, skipped_days, generated, failed_keys>>

\* === Result ===, return 0
Report ==
    /\ pc = "report"
    /\ Return("reported", 0)
    /\ UNCHANGED <<entry, token, dry_run, setupVars, day, logged_seconds, allocVars,
                   entryIdx, countVars, tracker, ghostVars>>

(***************************************************************************)
(* calculate_logged_seconds_for_day run on its own                         *)
(***************************************************************************)
CalcDay ==
    /\ entry = "calculate_logged_seconds_for_day"
    /\ pc = "calc"
    /\ \E o \in calculate_logged_seconds_for_day(tracker, day, MaxFaults) :
         /\ failed_keys' = o.failed
         /\ faults' = Cardinality(o.failed) + (IF o.kind = "value" THEN 0 ELSE 1)
         /\ logged_seconds' = o.value
         /\ pc' = IF o.kind = "value" THEN "returned" ELSE "raised"
    /\ UNCHANGED <<entry, token, dry_run, setupVars, day, allocVars, entryIdx,
                   countVars, exit_code, tracker, posts, generated, attempts>>

Next ==
    \/ MakeHeaders
    \/ AskUseDefaults
    \/ FetchOpenIssues
    \/ AskWeights
    \/ AskDates
    \/ AskWorkload
    \/ Confirm
    \/ DayStart
    \/ AllocStep
    \/ AllocReturn
    \/ DayPayloads
    \/ SubmitEntry
    \/ Report
    \/ CalcDay

Spec == Init /\ [][Next]_vars


(***************************************************************************)
(* Properties.                                                             *)
(***************************************************************************)
\* the positions at which payloads, budget and day belong to one call of
\* build_day_payloads
InCall == pc \in {"alloc", "returned", "submit"}

\* build_day_payloads has returned
Returned == pc \in {"returned", "submit"}

target_seconds == daily_hours * hour_seconds

\* C1: for every day main hands to build_day_payloads, the durations generated
\* sum to at most target - already-logged; and a call given a budget below
\* 3600 seconds generates no entry.
C1_WithinBudget ==
    /\ (entry = "main" /\ InCall) => SumDur(payloads) <= target_seconds - logged_seconds
    /\ (InCall /\ budget < hour_seconds) => payloads = <<>>

C1_Witness ==
    /\ entry = "main" /\ pc = "submit"
    /\ logged_seconds > 0
    /\ Len(payloads) >= 2
    /\ SumDur(payloads) = target_seconds - logged_seconds

\* C2: every entry build_day_payloads emits lasts a positive whole number of
\* hours, at most max_task_hours hours.
C2_WholeHoursCapped ==
    InCall =>
        \A i \in 1..Len(payloads) :
            /\ payloads[i].timeSpentSeconds > 0
            /\ payloads[i].timeSpentSeconds % hour_seconds = 0
            /\ payloads[i].timeSpentSeconds <= max_task_hours * hour_seconds

C2_Witness ==
    /\ pc = "returned"
    /\ max_task_hours >= 2
    /\ budget > max_task_hours * hour_seconds
    /\ \E i \in 1..Len(payloads) :
           payloads[i].timeSpentSeconds = max_task_hours * hour_seconds

\* C3: when build_day_payloads returns, the durations sum to less than
\* budget + 3600 and at least budget - 3599; to exactly the budget when the
\* budget is a whole number of hours.
C3_ExhaustsBudget ==
    (Returned /\ budget >= 0) =>
        /\ SumDur(payloads) < budget + hour_seconds
        /\ SumDur(payloads) >= budget - (hour_seconds - 1)
        /\ (budget % hour_seconds = 0 => SumDur(payloads) = budget)

\* daily target 4h, 1h logged, entries of at most 2h
C3_Witness ==
    /\ entry = "main" /\ pc = "submit"
    /\ daily_hours = 4 /\ logged_seconds = hour_seconds /\ max_task_hours = 2
    /\ budget = 3 * hour_seconds
    /\ SumDur(payloads) = 3 * hour_seconds
    /\ payloads[1].started.hh = StartHour

\* C4: a worklog-creating request is issued only with the dry-run flag off,
\* after the user confirmed a plan that passed every setup validation; none is
\* issued after an abort or a declined confirmation.
C4_WritesOnlyWhenConfirmed ==
    /\ posts > 0 =>
          /\ ~dry_run
          /\ confirmed
          /\ token # ""
          /\ weighted_issues # <<>>
          /\ start_date <= end_date
          /\ max_task_hours <= daily_hours
    /\ pc \in {"aborted", "cancelled"} => (posts = 0 /\ created = 0)

C4_Witness ==
    /\ pc = "reported"
    /\ posts > 0
    /\ created > 0

\* C5 as stated: a day whose already-logged seconds are >= target - 3600 is
\* skipped, so build_day_payloads is never run for it.
C5_SkipsFromBoundary ==
    (entry = "main" /\ InCall) => ~(logged_seconds >= target_seconds - hour_seconds)

\* C5 amended: a day whose gap target - already-logged is under one hour is
\* skipped and counted, with no entry generated or submitted; a day whose gap
\* is exactly one hour is not skipped and gets exactly one one-hour entry.
C5_SkipsUnderOneHour ==
    /\ [][(pc = "day" /\ pc' # "crashed" /\ errors' = errors) =>
            LET gap == target_seconds - logged_seconds'
            IN  /\ gap < hour_seconds =>
                    /\ skipped_days' = skipped_days + 1
                    /\ pc' \in {"day", "report"}
                    /\ generated' = generated
                    /\ posts' = posts
                    /\ tracker' = tracker
                /\ gap = hour_seconds =>
                    /\ skipped_days' = skipped_days
                    /\ pc' = "alloc"
                    /\ budget' = hour_seconds]_vars
    /\ []((entry = "main" /\ pc = "submit" /\ budget = hour_seconds) =>
            /\ Len(payloads) = 1
            /\ payloads[1].timeSpentSeconds = hour_seconds)

C5_Witness ==
    /\ entry = "main" /\ pc \in {"day", "report"}
    /\ skipped_days = 1 /\ errors = 0
    /\ target_seconds - logged_seconds > 0
    /\ target_seconds - logged_seconds < hour_seconds

\* the seconds the current user logged on day d
OwnSeconds(tr, d) ==
    SumSeconds({w \in tr : w.author = Me /\ StartsOn(w, d)})

\* C6: calculate_logged_seconds_for_day returns exactly the seconds the current
\* user logged on that day; other authors' worklogs do not contribute.
C6_OwnWorklogsOnly ==
    (entry = "calculate_logged_seconds_for_day" /\ pc = "returned" /\ failed_keys = {})
        => logged_seconds = OwnSeconds(tracker, day)

\* C7: once the fill loop has started, a failed request never ends the run
\* early: the run ends with the report and exit code 0, after every day and
\* every generated entry has been handled.
C7_LoopAlwaysCompletes ==
    (entry = "main" /\ confirmed /\ days # <<>> /\ exit_code # Running) =>
        /\ pc = "reported"
        /\ exit_code = 0
        /\ dayIdx = Len(days)
        /\ attempts = generated

\* C8: the first entry of a day starts at 10:00 (UTC+3) of that day and every
\* later entry starts where the previous one ends.
C8_BackToBack ==
    (InCall /\ payloads # <<>>) =>
        /\ payloads[1].started = Strftime(DayStartDt(day))
        /\ payloads[1].started.hh = StartHour
        /\ payloads[1].started.off = TzOffsetHours * hour_seconds
        /\ \A i \in 2..Len(payloads) :
              /\ StartedSeconds(payloads[i].started) =
                    StartedSeconds(payloads[i-1].started) + payloads[i-1].timeSpentSeconds
              /\ StartedSeconds(payloads[i].started) > StartedSeconds(payloads[i-1].started)

C8_Witness ==
    /\ pc = "returned"
    /\ Len(payloads) >= 3
    /\ payloads[1].timeSpentSeconds = 2 * hour_seconds
    /\ payloads[2].timeSpentSeconds = hour_seconds

\* C9: every iteration of the allocation loop lowers the remaining budget by at
\* least 3600, the budget never goes below 0, the loop has ended once it is
\* below 3600, and at most budget / 3600 entries are emitted.
C9_LoopTerminates ==
    /\ [][(pc = "alloc" /\ payloads' # payloads) =>
            /\ remaining_seconds >= hour_seconds
            /\ remaining_seconds' <= remaining_seconds - hour_seconds
            /\ Len(payloads') = Len(payloads) + 1]_vars
    /\ []((InCall /\ budget >= 0) =>
            /\ remaining_seconds >= 0
            /\ Len(payloads) <= budget \div hour_seconds
            /\ (remaining_seconds < hour_seconds => ENABLED (AllocReturn \/ DayPayloads) \/ Returned)
            /\ (Returned => remaining_seconds < hour_seconds))

C9_Witness ==
    /\ pc = "returned"
    /\ budget >= 3 * hour_seconds
    /\ Len(payloads) = budget \div hour_seconds

\* C10: every entry generated for a day starts on that day.
C10_StartsOnItsDay ==
    InCall => \A i \in 1..Len(payloads) : payloads[i].started.date = day

====
